---- MODULE Spec2Model ----
(***************************************************************************)
(* A model of koove_app.py: the six field extractors, create_report and    *)
(* the "Generate Reports" loop over the uploaded workbooks.                *)
(*                                                                         *)
(* Conventions.  A cell of a sheet is a record [k, s, n]: k is the kind    *)
(* ("nan" an empty cell, "str" a text, "num" a number, "date" a date), s   *)
(* the text and n the number or the day.  A grid (a header-less sheet) is  *)
(* a sequence of rows of equal length; the code's 0-based positions are    *)
(* kept and Iloc translates them.  A value of the report table is a record *)
(* [t, a]: t is the f-string's template and a the formatted arguments, so  *)
(* '' is [t |-> "", a |-> <<>>].  Fractions of the OEE sheet (Quality,     *)
(* OEE) are held in hundredths.                                            *)
(***************************************************************************)
EXTENDS Integers, Sequences, FiniteSets, TLC

\* ------------------------------------------------------------------ bounds

MaxOeeRows == 2
MaxCols == 4
MaxInv == 6
PadRows == 10
MaxConsRows == 3
MaxFiles == 2

\* ------------------------------------------------------------------- cells

Nan == [k |-> "nan", s |-> "", n |-> 0]
Str(s) == [k |-> "str", s |-> s, n |-> 0]
Num(n) == [k |-> "num", s |-> "", n |-> n]
Dt(d) == [k |-> "date", s |-> "", n |-> d]

\* pd.isna / pd.notna
IsNa(x) == x.k = "nan"

\* str.lower() on the texts the workbooks of the model hold
Lower(s) ==
  CASE s = "Target MTD" -> "target mtd"
    [] s = "XNBR LATEX" -> "xnbr latex"
    [] s = "Xnbr Latex (Drums)" -> "xnbr latex (drums)"
    [] s = "Nitrile" -> "nitrile"
    [] s = "Month" -> "month"
    [] s = "Coal" -> "coal"
    [] s = "Electricity" -> "electricity"
    [] s = "Coal & Electricity" -> "coal & electricity"
    [] s = "Water" -> "water"
    [] s = "OEE Data" -> "oee data"
    [] s = "Gloves Production" -> "gloves production"
    [] s = "Coal & Elec" -> "coal & elec"
    [] s = "Clear Order Details" -> "clear order details"
    [] s = "Clear order details" -> "clear order details"
    [] s = "Summary" -> "summary"
    [] s = "Order No" -> "order no"
    [] s = "Total Payment Received" -> "total payment received"
    [] s = "Total Dispatch Price" -> "total dispatch price"
    [] s = "Advance Payment" -> "advance payment"
    [] OTHER -> s

\* str.upper() on the same texts
Upper(s) ==
  CASE s = "Target MTD" -> "TARGET MTD"
    [] s = "Xnbr Latex (Drums)" -> "XNBR LATEX (DRUMS)"
    [] s = "Nitrile" -> "NITRILE"
    [] s = "Month" -> "MONTH"
    [] OTHER -> s

\* kw in low: the substring test, on lowercase texts
Contains(kw, low) ==
  CASE kw = "target mtd" -> low \in {"target mtd"}
    [] kw = "xnbr latex" -> low \in {"xnbr latex", "xnbr latex (drums)"}
    [] kw = "coal" -> low \in {"coal", "coal & electricity", "coal & elec"}
    [] kw = "electri" -> low \in {"electricity", "coal & electricity"}
    [] kw = "oee" -> low \in {"oee data"}
    [] kw = "gloves production" -> low \in {"gloves production"}
    [] kw = "coal & elec" -> low \in {"coal & elec", "coal & electricity"}
    [] kw = "clear order details" -> low \in {"clear order details"}
    [] kw = "total payment receive" -> low \in {"total payment received"}
    [] kw = "total dispatch price" -> low \in {"total dispatch price"}
    [] kw = "advance payment" -> low \in {"advance payment"}
    [] OTHER -> FALSE

\* str(x) of a cell: the text itself, "nan" of an empty cell, digits otherwise
StrOf(x) == IF x.k = "str" THEN x.s ELSE IF x.k = "nan" THEN "nan" ELSE "0"

\* lambda x: kw in str(x).lower()
CellHas(kw, x) == Contains(kw, Lower(StrOf(x)))

\* ------------------------------------------------------------------- grids

Height(g) == Len(g)
Width(g) == IF Len(g) = 0 THEN 0 ELSE Len(g[1])

\* whether prod_df.iloc[r, c] is inside the grid (r, c >= 0 here)
InBounds(g, r, c) == r >= 0 /\ r < Height(g) /\ c >= 0 /\ c < Width(g)
Iloc(g, r, c) == g[r + 1][c + 1]

\* mask.stack(); match[match].index[0]: the row-major first position of the
\* grid whose cell satisfies the mask ("not match.any()" is Matches(g, kw) = {})
Matches(g, kw) ==
  {p \in (0 .. Height(g) - 1) \X (0 .. Width(g) - 1) : CellHas(kw, Iloc(g, p[1], p[2]))}
RowMajorFirst(ps) ==
  CHOOSE p \in ps : \A q \in ps : p[1] < q[1] \/ (p[1] = q[1] /\ p[2] <= q[2])

\* ------------------------------------------------------- the report table

Val(t, a) == [t |-> t, a |-> a]
Txt(t) == Val(t, <<>>)
Blank == Txt("")

Row(sno, p, u, s) ==
  [sno |-> sno, Particulars |-> Txt(p), Unit |-> Txt(u), Standard |-> Txt(s),
   Actual |-> Blank, Remark |-> Blank]

\* analysis_data, set_index('Sl. No.')
BaseReport ==
  << Row(1, "LINE 1 Working Hrs.", "Hrs", "22 Hrs"),
     Row(2, "LINE 1 Production Capacity", "Pcs/hrs", "18181 Pcs/hrs"),
     Row(3, "LINE 1 Quality", "%", "100 %"),
     Row(4, "LINE 1 OEE", "%", "80 %"),
     Row(5, "LINE 2 Working Hrs.", "Hrs", "22 Hrs"),
     Row(6, "LINE 2 Production Capacity", "Pcs/hrs", "22727 Pcs/hrs"),
     Row(7, "LINE 2 Quality", "%", "100 %"),
     Row(8, "LINE 2 OEE", "%", "80 %"),
     Row(9, "LINE 3 Working Hrs.", "Hrs", "22 Hrs"),
     Row(10, "LINE 3 Production Capacity", "Pcs/hrs", "22727 Pcs/hrs"),
     Row(11, "LINE 3 Quality", "%", "100 %"),
     Row(12, "LINE 3 OEE", "%", "80 %"),
     Row(13, "ABNORMALITIES (1+2+3)", "Nos", "0 Nos"),
     Row(14, "PRODUCTION TARGET (Qty/day)", "Pcs", ""),
     Row(15, "PRODUCTION TARGET (in %)", "%", ""),
     Row(17, "COAL CONSUMPTION PER DAY", "Kg", ""),
     Row(18, "ELECTRICITY CONSUMPTION PER DAY", "Unit", "") >>

Snos(df) == {df[k].sno : k \in DOMAIN df}

\* analysis_df.loc[sno, col] = v: every row labelled sno is set; a label the
\* index lacks is appended with the other columns missing
SetLoc(df, sno, col, v) ==
  IF sno \in Snos(df)
    THEN [k \in DOMAIN df |-> IF df[k].sno = sno THEN [df[k] EXCEPT ![col] = v] ELSE df[k]]
    ELSE Append(df, [[sno |-> sno, Particulars |-> Txt("nan"), Unit |-> Txt("nan"),
                      Standard |-> Txt("nan"), Actual |-> Txt("nan"),
                      Remark |-> Txt("nan")] EXCEPT ![col] = v])

\* the result of an extractor: the table, the st.warning calls it made, and
\* the exception it raised ("" when it returned)
Ret(df, warn, exc) == [df |-> df, warn |-> warn, exc |-> exc]

\* f"{x:,.0f}" and the like raise ValueError on a text
Formats(x) == x.k # "str"

\* ----------------------------------------------------------- process_oee_data

NaT == 0
LineName(i) == CASE i = 1 -> "Line 1" [] i = 2 -> "Line 2" [] OTHER -> "Line 3"

\* create_report's pre-processing of the OEE sheet: rows whose Date does not
\* parse are dropped (the sheets of the model hold no other missing value for
\* fillna(0) to replace)
PreprocessOee(rows) == SelectSeq(rows, LAMBDA r : r.Date # NaT)

\* f"{a / b:,.0f}": the quotient rounded to the nearest integer, ties to even
RoundDiv(a, b) ==
  LET q == a \div b
      r == a % b
  IN  IF 2 * r > b \/ (2 * r = b /\ q % 2 = 1) THEN q + 1 ELSE q

\* oee_df[oee_df['Date'] == target_date]
DailyOeeAll(oee_df, target_date) == oee_df
DailyOee(oee_df, target_date) == SelectSeq(oee_df, LAMBDA r : r.Date = target_date)

\* the else branch of the loop over the lines
ShutdownLineAllRemarks(df, i) ==
  LET F[k \in 0 .. 4] ==
        IF k = 0 THEN df
        ELSE SetLoc(SetLoc(F[k - 1], 4 * i - 4 + k, "Actual", Txt("Shutdown")),
                    4 * i - 4 + k, "Remark", Txt("Line was Shutdown for the day."))
  IN  F[4]
ShutdownLine(df, i) ==
  LET hrs_sno == 4 * i - 3
      F[k \in 0 .. 4] ==
        IF k = 0 THEN df ELSE SetLoc(F[k - 1], hrs_sno + k - 1, "Actual", Txt("Shutdown"))
  IN  SetLoc(F[4], hrs_sno, "Remark", Txt("Line was Shutdown for the day."))

\* the then branch: the four rows of a running line
RunningLine(df, i, row) ==
  LET hrs_sno == 4 * i - 3
      cap_sno == 4 * i - 2
      qual_sno == 4 * i - 1
      oee_sno == 4 * i
      run_time == row.RunTime
      downtime == row.Downtime
      remark_hrs ==
        IF run_time < 22 /\ downtime > 0
          THEN Val("Operation time {:.0f} hrs. {:.1f} hrs downtime.", <<Num(run_time), Num(downtime)>>)
          ELSE Val("Operation time {:.0f} hrs.", <<Num(run_time)>>)
      prod_capacity == IF run_time > 0 THEN RoundDiv(row.TotalPcs, run_time) ELSE 0
      d1 == SetLoc(df, hrs_sno, "Actual", Val("{:.0f} Hrs", <<Num(run_time)>>))
      d2 == SetLoc(d1, hrs_sno, "Remark", remark_hrs)
      d3 == SetLoc(d2, cap_sno, "Actual", Val("{:,.0f} Pcs/hrs", <<Num(prod_capacity)>>))
      d4 == SetLoc(d3, cap_sno, "Remark", Val("Actual Production rate {:,.0f} pcs/hr.", <<Num(prod_capacity)>>))
      d5 == SetLoc(d4, qual_sno, "Actual", Val("{:.0f} %", <<Num(row.Quality)>>))
      d6 == SetLoc(d5, qual_sno, "Remark", Val("Quality is {:.0f}%.", <<Num(row.Quality)>>))
      d7 == SetLoc(d6, oee_sno, "Actual", Val("{:.0f} %", <<Num(row.OEE)>>))
  IN  SetLoc(d7, oee_sno, "Remark", Val("OEE is {:.0f}%.", <<Num(row.OEE)>>))

\* one iteration of "for i in range(1, 4)"
OeeLine(df, daily, i) ==
  LET line_data == SelectSeq(daily, LAMBDA r : r.Line = LineName(i))
  IN  IF Len(line_data) > 0 /\ line_data[1].OEE > 0
        THEN RunningLine(df, i, line_data[1])
        ELSE ShutdownLine(df, i)

ProcessOeeData(oee_df, target_date, df) ==
  LET daily == DailyOee(oee_df, target_date)
  IN  IF Len(daily) = 0
        THEN Ret(df, <<"No OEE data found for date.">>, "")
        ELSE Ret(OeeLine(OeeLine(OeeLine(df, daily, 1), daily, 2), daily, 3), <<>>, "")

\* ------------------------------------------------- process_production_target

ProcessProductionTarget(prod_df, df) ==
  IF prod_df.none
    THEN Ret(df, <<"'Gloves Production' sheet not found for production target processing.">>, "")
    ELSE
      LET g == prod_df.v
          ms == Matches(g, "target mtd")
      IN  IF ms = {}
            THEN Ret(df, <<"'Target MTD' keyword not found in 'Gloves Production' sheet.">>, "")
            ELSE
              LET x == RowMajorFirst(ms)[1]
                  y == RowMajorFirst(ms)[2]
              IN  IF ~(InBounds(g, x, y + 1) /\ InBounds(g, x + 1, y + 1) /\ InBounds(g, x + 2, y + 1))
                    THEN Ret(df, <<"Could not find production target values in the expected cells.">>, "")
                    ELSE
                      LET target_qty == Iloc(g, x, y + 1)
                          actual_qty == Iloc(g, x + 1, y + 1)
                          actual_percent == Iloc(g, x + 2, y + 1)
                          d1 == SetLoc(df, 14, "Standard", Val("{:,.0f} Pcs", <<target_qty>>))
                          d2 == SetLoc(d1, 14, "Actual", Val("{:,.0f} Pcs", <<actual_qty>>))
                          d3 == SetLoc(d2, 14, "Remark", Val("Actual production is {:,.0f} pcs.", <<actual_qty>>))
                          d4 == SetLoc(d3, 15, "Standard", Txt("100 %"))
                          d5 == SetLoc(d4, 15, "Actual", Val("{:.1f} %", <<actual_percent>>))
                          d6 == SetLoc(d5, 15, "Remark", Val("Achievement is {:.1f}%.", <<actual_percent>>))
                      IN  IF ~Formats(target_qty) THEN Ret(df, <<>>, "ValueError")
                          ELSE IF ~Formats(actual_qty) THEN Ret(d1, <<>>, "ValueError")
                          ELSE IF ~Formats(actual_percent) THEN Ret(d4, <<>>, "ValueError")
                          ELSE Ret(d6, <<>>, "")

\* ------------------------------------------------------- process_consumption

\* the indices 0 .. n-1 in ascending order
Upto(n) == [k \in 1 .. n |-> k - 1]

\* first_col[first_col.str.contains(kw, na=False)].index: the rows of column 0
\* holding a text that contains kw, ascending
RowIndex(g, kw) ==
  SelectSeq(Upto(Height(g)),
            LAMBDA r : Iloc(g, r, 0).k = "str" /\ Contains(kw, Lower(Iloc(g, r, 0).s)))

\* coal_row_index[0] / elec_row_index[0]
LastOf(idx) == idx[Len(idx)]
FirstOf(idx) == idx[1]

\* whether consump_df.iloc[:, 0] has the .str accessor: an object column, one
\* that holds a text or mixes dates with numbers
HasStrAccessor(g) ==
  LET kinds == {Iloc(g, r, 0).k : r \in 0 .. Height(g) - 1}
  IN  "str" \in kinds \/ {"date", "num"} \subseteq kinds

\* date_mask: the cells that parse to the target day
DateMatches(g, target_date) ==
  {p \in (0 .. Height(g) - 1) \X (0 .. Width(g) - 1) :
     Iloc(g, p[1], p[2]).k = "date" /\ Iloc(g, p[1], p[2]).n = target_date}

ProcessConsumption(consump_df, target_date, df) ==
  IF consump_df.none
    THEN Ret(df, <<"'coal & elec' sheet not found for consumption processing.">>, "")
    ELSE
      LET g == consump_df.v
          ds == DateMatches(g, target_date)
      IN  IF ds = {}
            THEN Ret(df, <<"No consumption data found for date.">>, "")
            ELSE IF ~HasStrAccessor(g) THEN Ret(df, <<>>, "AttributeError")
            ELSE
              LET date_col_index == RowMajorFirst(ds)[2]
                  coal_row_index == RowIndex(g, "coal")
                  elec_row_index == RowIndex(g, "electri")
                  coal_val == Iloc(g, FirstOf(coal_row_index), date_col_index)
                  elec_val == Iloc(g, FirstOf(elec_row_index), date_col_index)
                  d1 == IF Len(coal_row_index) > 0
                          THEN SetLoc(SetLoc(df, 17, "Actual", Val("{:,.0f} Kg", <<coal_val>>)),
                                      17, "Remark", Val("Coal consumption is {:,.0f} Kg.", <<coal_val>>))
                          ELSE df
                  d2 == IF Len(elec_row_index) > 0
                          THEN SetLoc(SetLoc(d1, 18, "Actual", Val("{:,.0f} Unit", <<elec_val>>)),
                                      18, "Remark", Val("Electricity consumption is {:,.0f} unit.", <<elec_val>>))
                          ELSE d1
              IN  IF Len(coal_row_index) > 0 /\ ~Formats(coal_val) THEN Ret(df, <<>>, "ValueError")
                  ELSE IF Len(elec_row_index) > 0 /\ ~Formats(elec_val) THEN Ret(d1, <<>>, "ValueError")
                  ELSE Ret(d2, <<>>, "")

\* ----------------------------------------------------- process_abnormalities

ProcessAbnormalities(df) ==
  SetLoc(SetLoc(df, 13, "Actual", Txt("13 Nos")), 13, "Remark", Txt("13 nos. of Abnormalities are found."))

\* --------------------------------------------------------- process_inventory

InventoryStartSno == 19

\* str(particular).upper()
UpperOf(x) == IF x.k = "str" THEN Txt(Upper(x.s)) ELSE Val("{}", <<x>>)

\* remark of one inventory row: int(float(days_val)) fails on anything but a
\* number and the raw str(days_val) is used; the in-transit cell is read only
\* on a row whose particulars contain "xnbr latex", and a column outside the
\* grid is passed over
InventoryRemark(g, r, start_col, particular, days_val) ==
  LET base == IF days_val.k = "num"
                THEN Val("Stock available for {} days.", <<days_val>>)
                ELSE Val("{}", <<days_val>>)
  IN  IF CellHas("xnbr latex", particular) /\ InBounds(g, r, start_col + 3)
         /\ ~IsNa(Iloc(g, r, start_col + 3))
        THEN Val(base.t \o " {} In transit.", base.a \o <<Iloc(g, r, start_col + 3)>>)
        ELSE base

\* "for r in range(start_row, len(prod_df))" from row r on: the rows appended
\* to inventory_rows, and the exception that ended the walk ("" when none)
RECURSIVE Walk(_, _, _, _, _)
Walk(g, r, start_col, current_sno, inventory_rows) ==
  IF r >= Height(g) THEN [rows |-> inventory_rows, exc |-> ""]
  ELSE
    LET particular == Iloc(g, r, start_col)
    IN  IF IsNa(particular) \/ (particular.k = "str" /\ particular.s = "")
          THEN [rows |-> inventory_rows, exc |-> ""]
        ELSE IF ~(InBounds(g, r, start_col + 1) /\ InBounds(g, r, start_col + 2))
          THEN [rows |-> inventory_rows, exc |-> "IndexError"]
        ELSE
          LET actual_val == Iloc(g, r, start_col + 1)
              days_val == Iloc(g, r, start_col + 2)
              remark == InventoryRemark(g, r, start_col, particular, days_val)
              row == [sno |-> current_sno, Particulars |-> UpperOf(particular),
                      Unit |-> Txt("Kg"), Standard |-> Blank,
                      Actual |-> Val("{:,.0f} Kg", <<actual_val>>), Remark |-> remark]
          IN  IF ~Formats(actual_val)
                THEN [rows |-> inventory_rows, exc |-> "ValueError"]
                ELSE Walk(g, r + 1, start_col, current_sno + 1, Append(inventory_rows, row))

\* pd.concat([analysis_df, pd.DataFrame(rows).set_index('Sl. No.')])
Concat(df, rows) == df \o rows

ProcessInventory(prod_df, df) ==
  IF prod_df.none
    THEN Ret(df, <<"'Gloves Production' sheet not found for inventory check.">>, "")
    ELSE
      LET g == prod_df.v
          ms == Matches(g, "xnbr latex")
      IN  IF ms = {}
            THEN Ret(df, <<"'XNBR LATEX' keyword not found for inventory check.">>, "")
            ELSE
              LET start_row == RowMajorFirst(ms)[1]
                  start_col == RowMajorFirst(ms)[2]
                  w == Walk(g, start_row, start_col, InventoryStartSno, <<>>)
              IN  IF w.exc # "" THEN Ret(df, <<>>, w.exc)
                  ELSE IF Len(w.rows) > 0 THEN Ret(Concat(df, w.rows), <<>>, "")
                  ELSE Ret(df, <<>>, "")

\* ----------------------------------------------------- process_order_details

ClearOrderSno == 24
DispatchSno == 25
PendingSno == 26

\* next((col for col in order_df.columns if kw in str(col).lower()), None):
\* the position of the first such column, 0 for None
FirstCol(columns, kw) ==
  LET hits == {k \in DOMAIN columns : Contains(kw, Lower(columns[k]))}
  IN  IF hits = {} THEN 0 ELSE CHOOSE k \in hits : \A j \in hits : k <= j

FinancialRow(sno, particulars, actual, remark, val) ==
  [sno |-> sno, Particulars |-> Txt(particulars), Unit |-> Txt("Rs."), Standard |-> Blank,
   Actual |-> Val(actual, <<val>>), Remark |-> Val(remark, <<val>>)]

ProcessOrderDetails(order_df, df) ==
  IF order_df.none
    THEN Ret(df, <<"'Clear order details' sheet not found.">>, "")
  ELSE IF Len(order_df.v.rows) = 0 THEN Ret(df, <<>>, "IndexError")
  ELSE
    LET last_row == order_df.v.rows[Len(order_df.v.rows)]
        clear_order_col == FirstCol(order_df.v.columns, "total payment receive")
        dispatch_col == FirstCol(order_df.v.columns, "total dispatch price")
        pending_col == FirstCol(order_df.v.columns, "advance payment")
        r1 == IF clear_order_col # 0
                THEN <<FinancialRow(ClearOrderSno, "CLEAR ORDER VALUE", "Rs. {:,.2f}",
                                    "Total Clear Order value is Rs. {:,.2f}", last_row[clear_order_col])>>
                ELSE <<>>
        r2 == IF dispatch_col # 0
                THEN Append(r1, FinancialRow(DispatchSno, "TOTAL DISPATCH VALUE", "Rs. {:,.2f}",
                                    "Total dispatch value is Rs. {:,.2f}", last_row[dispatch_col]))
                ELSE r1
        financial_rows ==
              IF pending_col # 0
                THEN Append(r2, FinancialRow(PendingSno, "PENDING", "Rs. {:,.2f}",
                                    "Pending quantity value is Rs. {:,.2f}", last_row[pending_col]))
                ELSE r2
        raises == \E c \in {clear_order_col, dispatch_col, pending_col} :
                    c # 0 /\ ~Formats(last_row[c])
    IN  IF raises THEN Ret(df, <<>>, "ValueError")
        ELSE IF Len(financial_rows) > 0 THEN Ret(Concat(df, financial_rows), <<>>, "")
        ELSE Ret(df, <<>>, "")

\* ------------------------------------------------------------- create_report

\* find_sheet_by_keyword: the position in xls.sheet_names of the first name
\* containing the keyword, 0 for None
FindSheetByKeyword(sheet_names, keyword) ==
  LET hits == {k \in DOMAIN sheet_names : Contains(Lower(keyword), Lower(sheet_names[k]))}
  IN  IF hits = {} THEN 0 ELSE CHOOSE k \in hits : \A j \in hits : k <= j

\* pd.read_excel(xls, sheet_name=...) if sheet_name else None
NoneDf == [none |-> TRUE, v |-> <<>>]
ReadSheet(xls, keyword) ==
  LET k == FindSheetByKeyword(xls.sheet_names, keyword)
  IN  IF k = 0 THEN NoneDf ELSE [none |-> FALSE, v |-> xls.sheets[xls.sheet_names[k]]]

\* analysis_df.sort_index(): ascending serial numbers; the default sort is not
\* stable, so the rows of a serial number in flips come out in reverse
Reverse(s) == [k \in 1 .. Len(s) |-> s[Len(s) + 1 - k]]
DuplicateSnos(df) ==
  {n \in Snos(df) : Cardinality({k \in DOMAIN df : df[k].sno = n}) > 1}
RECURSIVE SortFrom(_, _, _)
SortFrom(df, keys, flips) ==
  IF keys = {} THEN <<>>
  ELSE
    LET m == CHOOSE n \in keys : \A j \in keys : n <= j
        group == SelectSeq(df, LAMBDA r : r.sno = m)
    IN  (IF m \in flips THEN Reverse(group) ELSE group) \o SortFrom(df, keys \ {m}, flips)
SortIndexDescending(df, flips) == Reverse(SortFrom(df, Snos(df), flips))
SortIndex(df, flips) == SortFrom(df, Snos(df), flips)

\* .reset_index(): 'Sl. No.' becomes the first column
IndexColumn(df) == [k \in DOMAIN df |-> df[k].sno]
\* .drop(columns=['Sl. No.'])
DropSno(df) ==
  [k \in DOMAIN df |->
     [Particulars |-> df[k].Particulars, Unit |-> df[k].Unit, Standard |-> df[k].Standard,
      Actual |-> df[k].Actual, Remark |-> df[k].Remark]]

\* "analysis_df = process_...(analysis_df)": res is what ran so far and n the
\* next extractor's result on res.df, which counts unless an earlier one raised
Then(res, n) ==
  IF res.exc # "" THEN res ELSE Ret(n.df, res.warn \o n.warn, n.exc)

\* create_report(xls, target_date) as a function of its arguments, up to the
\* sort: the table, the warnings, the exception raised; none for "return None"
CreateReport(wb, date) ==
  LET oee == ReadSheet(wb, "oee")
      prod == ReadSheet(wb, "Gloves Production")
      consump == ReadSheet(wb, "coal & elec")
      order == ReadSheet(wb, "Clear order details")
      r1 == ProcessOeeData(PreprocessOee(oee.v), date, BaseReport)
      r2 == Then(r1, Ret(ProcessAbnormalities(r1.df), <<>>, ""))
      r3 == Then(r2, ProcessProductionTarget(prod, r2.df))
      r4 == Then(r3, ProcessConsumption(consump, date, r3.df))
      r5 == Then(r4, ProcessInventory(prod, r4.df))
      r6 == Then(r5, ProcessOrderDetails(order, r5.df))
  IN  IF oee.none THEN [none |-> TRUE, df |-> <<>>, warn |-> <<>>, exc |-> ""]
      ELSE [none |-> FALSE, df |-> r6.df, warn |-> r6.warn, exc |-> r6.exc]

\* ------------------------------------------------- the workbooks of the model

SeqsUpTo(S, n) == UNION {[1 .. k -> S] : k \in 0 .. n}

Present(v) == [none |-> FALSE, v |-> v]

\* a workbook: its sheet names in order, and each sheet's content
Workbook(oee, prod, consump, order) ==
  LET names == <<"Summary">>
               \o (IF oee.none THEN <<>> ELSE <<"OEE Data">>)
               \o (IF prod.none THEN <<>> ELSE <<"Gloves Production">>)
               \o (IF consump.none THEN <<>> ELSE <<"Coal & Elec">>)
               \o (IF order.none THEN <<>> ELSE <<"Clear Order Details">>)
  IN  [sheet_names |-> names,
       sheets |-> [n \in {names[k] : k \in DOMAIN names} |->
                     CASE n = "OEE Data" -> oee.v
                       [] n = "Gloves Production" -> prod.v
                       [] n = "Coal & Elec" -> consump.v
                       [] n = "Clear Order Details" -> order.v
                       [] OTHER -> <<>>]]

\* rows of the OEE sheet: a stopped line, a line running the full day, a line
\* with downtime, and a line with a positive OEE and no run time
OeeRow(d, l, kind) ==
  CASE kind = "stopped" ->
         [Date |-> d, Line |-> LineName(l), RunTime |-> 0, TotalPcs |-> 0, Quality |-> 0,
          OEE |-> 0, Downtime |-> 22]
    [] kind = "full" ->
         [Date |-> d, Line |-> LineName(l), RunTime |-> 22, TotalPcs |-> 440000, Quality |-> 95,
          OEE |-> 82, Downtime |-> 0]
    [] kind = "norun" ->
         [Date |-> d, Line |-> LineName(l), RunTime |-> 0, TotalPcs |-> 10, Quality |-> 50,
          OEE |-> 1, Downtime |-> 22]
    [] OTHER ->
         [Date |-> d, Line |-> LineName(l), RunTime |-> 20, TotalPcs |-> 410010, Quality |-> 90,
          OEE |-> 64, Downtime |-> 2]
OeeRows ==
  {OeeRow(1, l, kind) : l \in 1 .. 3, kind \in {"stopped", "full", "partial"}}
    \cup {OeeRow(2, 1, "full")}
    \cup {OeeRow(NaT, 1, "full"), OeeRow(1, 1, "norun")}
OeeSheets == SeqsUpTo(OeeRows, MaxOeeRows)
OeeGood == <<OeeRow(1, 1, "full"), OeeRow(1, 2, "stopped"), OeeRow(2, 3, "partial")>>

\* a row of width w holding vals from column c on (what passes the width is cut)
RowAt(w, c, vals) ==
  [j \in 1 .. w |-> IF j - 1 >= c /\ j - c <= Len(vals) THEN vals[j - c] ELSE Nan]
EmptyRows(n, w) == [k \in 1 .. n |-> [j \in 1 .. w |-> Nan]]

\* the production-target block: "Target MTD" at column tc of its first row and
\* the three values in the next column, numbers or texts
TargetBlock(w, tc, nr, v) ==
  [k \in 1 .. nr |->
     RowAt(w, tc, <<IF k = 1 THEN Str("Target MTD") ELSE Str("Month"),
                    IF v = "num" THEN Num(1000 * k) ELSE Str("Nitrile")>>)]
TargetBlocks(w) ==
  {<<>>} \cup {TargetBlock(w, tc, nr, v) : tc \in 0 .. w - 1, nr \in 1 .. 3, v \in {"num", "str"}}

\* the inventory block: n rows of particulars at column xc, the first one
\* "Xnbr Latex (Drums)", with the stock, the days and the in-transit cell to
\* their right; the stock of the last row may be a text, the days and the
\* in-transit cells may be empty; trail adds an empty row and one more row
InventoryBlock(w, xc, n, a, d, t, trail) ==
  [k \in 1 .. n |->
     RowAt(w, xc, <<IF k = 1 THEN Str("Xnbr Latex (Drums)") ELSE Str("Nitrile"),
                    IF a = "str" /\ k = n THEN Str("Nitrile") ELSE Num(100 * k),
                    IF d = "num" THEN Num(k) ELSE Nan,
                    IF t = "num" THEN Num(50) ELSE Nan>>)]
    \o (IF trail THEN <<RowAt(w, 0, <<>>), RowAt(w, xc, <<Str("Nitrile"), Num(7), Num(7)>>)>>
        ELSE <<>>)
InventoryBlocks(w) ==
  {InventoryBlock(w, xc, n, a, d, t, trail) :
     xc \in 0 .. w - 1, n \in 1 .. MaxInv, a \in {"num", "str"}, d \in {"num", "nan"},
     t \in {"num", "nan"}, trail \in BOOLEAN}

ProdGrids ==
  UNION {
    {EmptyRows(p, w) \o tb \o ib :
       p \in {0, PadRows}, tb \in TargetBlocks(w),
       ib \in {<<>>, InventoryBlock(w, 0, 2, "num", "num", "num", FALSE)}}
    \cup
    {tb \o ib :
       tb \in {<<>>, TargetBlock(w, 0, 3, "num")}, ib \in InventoryBlocks(w)}
    : w \in 1 .. MaxCols}
ProdGood ==
  TargetBlock(4, 0, 3, "num") \o InventoryBlock(4, 0, 2, "num", "num", "num", FALSE)

\* the 'coal & elec' sheet: a header row with the days, then the labelled rows,
\* the value of row r and column c being 100 * r + c
ConsLabels == {"Coal", "Electricity", "Water", "Coal & Electricity"}
ConsGrid(hdr, days, labels) ==
  <<(<<hdr>> \o [j \in 1 .. Len(days) |-> Dt(days[j])])>>
    \o [r \in 1 .. Len(labels) |->
          <<Str(labels[r])>> \o [j \in 1 .. Len(days) |-> Num(100 * r + j)]]
ConsGrids ==
  {ConsGrid(Str("Month"), days, labels) :
     days \in {<<1>>, <<2>>, <<2, 1>>, <<1, 1>>}, labels \in SeqsUpTo(ConsLabels, MaxConsRows)}
    \cup {ConsGrid(Nan, <<1>>, <<>>), ConsGrid(Num(3), <<2, 1>>, <<>>), <<>>}
ConsGood == ConsGrid(Str("Month"), <<2, 1>>, <<"Water", "Coal", "Electricity">>)

\* the 'Clear order details' sheet: its header and its data rows
OrderHeaders == <<"Total Payment Received", "Total Dispatch Price", "Advance Payment">>
OrderSheet(cols, n) ==
  LET columns == <<"Order No">> \o SelectSeq(OrderHeaders, LAMBDA h : h \in cols)
  IN  [columns |-> columns,
       rows |-> [r \in 1 .. n |-> [c \in 1 .. Len(columns) |-> Num(1000 * r + c)]]]
OrderSheets ==
  {OrderSheet(cols, n) : cols \in SUBSET {OrderHeaders[k] : k \in 1 .. 3}, n \in 0 .. 2}
OrderGood == OrderSheet({OrderHeaders[k] : k \in 1 .. 3}, 2)

Some(S) == {Present(x) : x \in S}

\* the workbooks processed alone: one sheet varied with the others fixed, the
\* order sheet against inventories of several lengths, and every combination
\* of sheets present and absent
Workbooks ==
  {Workbook(oee, Present(ProdGood), Present(ConsGood), Present(OrderGood)) : oee \in Some(OeeSheets)}
    \cup {Workbook(Present(OeeGood), prod, Present(ConsGood), Present(OrderGood)) : prod \in Some(ProdGrids)}
    \cup {Workbook(Present(OeeGood), Present(ProdGood), consump, Present(OrderGood)) :
            consump \in Some(ConsGrids)}
    \cup {Workbook(Present(OeeGood), Present(InventoryBlock(3, 0, n, "num", "num", "nan", FALSE)),
                   Present(ConsGood), order) :
            n \in {1, MaxInv - 1, MaxInv}, order \in Some(OrderSheets)}
    \cup {Workbook(oee, prod, consump, order) :
            oee \in {NoneDf, Present(<<>>), Present(OeeGood)}, prod \in {NoneDf, Present(ProdGood)},
            consump \in {NoneDf, Present(ConsGood)}, order \in {NoneDf, Present(OrderGood)}}

\* the workbooks of a batch: one without an OEE sheet, a complete one, one with
\* the OEE sheet alone, one whose inventory anchor is in the last column and
\* one whose order sheet has no data row
BatchWorkbooks ==
  { Workbook(NoneDf, Present(ProdGood), Present(ConsGood), Present(OrderGood)),
    Workbook(Present(OeeGood), Present(ProdGood), Present(ConsGood), Present(OrderGood)),
    Workbook(Present(OeeGood), NoneDf, NoneDf, NoneDf),
    Workbook(Present(OeeGood), Present(InventoryBlock(1, 0, 1, "num", "num", "num", FALSE)),
             Present(ConsGood), Present(OrderGood)),
    Workbook(Present(OeeGood), Present(ProdGood), Present(ConsGood), Present(OrderSheet({}, 0))) }

Dates == 1 .. 2

\* an upload: the files in upload order (a file's name is its position, the
\* names being distinct) and the date chosen for each
Uploads ==
  {[files |-> <<wb>>, dates |-> <<1>>] : wb \in Workbooks}
    \cup UNION {[files : [1 .. n -> BatchWorkbooks], dates : [1 .. n -> Dates]] : n \in 1 .. MaxFiles}

\* ------------------------------------------------------------ the program

VARIABLES
  uploaded_files,   \* the uploaded workbooks, in upload order
  file_dates,       \* file_dates: the date chosen for each file name
  report_data,      \* st.session_state.report_data
  i,                \* the loop's index into uploaded_files
  pc,               \* where the script is
  analysis_df,      \* create_report's analysis_df, in row order, each row with its index label sno
  final_index,      \* the 'Sl. No.' column of sort_index().reset_index()
  final_report_df,  \* create_report's result
  exc,              \* the exception being propagated ("" when none)
  warnings,         \* the st.warning calls of the run: <<file name, text>>
  errors            \* the st.error calls of the run: <<file name, text>>

vars == <<uploaded_files, file_dates, report_data, i, pc, analysis_df, final_index,
          final_report_df, exc, warnings, errors>>

\* the file of the current iteration
file_name == i + 1
xls == uploaded_files[i + 1]
target_date == file_dates[file_name]

oee_df == ReadSheet(xls, "oee")
prod_df == ReadSheet(xls, "Gloves Production")
consump_df == ReadSheet(xls, "coal & elec")
order_df == ReadSheet(xls, "Clear order details")

Init ==
  /\ \E u \in Uploads : uploaded_files = u.files /\ file_dates = u.dates
  /\ report_data = <<>>
  /\ i = 0
  /\ pc = "idle"
  /\ analysis_df = <<>>
  /\ final_index = <<>>
  /\ final_report_df = NoneDf
  /\ exc = ""
  /\ warnings = <<>>
  /\ errors = <<>>

\* the "Generate Reports" button: the script runs anew and the list is emptied
GenerateReports ==
  /\ pc \in {"idle", "done"}
  /\ report_data' = <<>>
  /\ i' = 0
  /\ pc' = "loop"
  /\ analysis_df' = <<>>
  /\ final_index' = <<>>
  /\ final_report_df' = NoneDf
  /\ exc' = ""
  /\ warnings' = <<>>
  /\ errors' = <<>>
  /\ UNCHANGED <<uploaded_files, file_dates>>

\* create_report on a workbook without an OEE sheet: st.error, return None,
\* and the loop goes on to the next file
CreateReportNoOee ==
  /\ pc = "loop" /\ i < Len(uploaded_files)
  /\ oee_df.none
  /\ errors' = Append(errors, <<file_name, "Could not find 'OEE' sheet. Cannot proceed.">>)
  /\ final_report_df' = NoneDf
  /\ analysis_df' = <<>>
  /\ final_index' = <<>>
  /\ i' = i + 1
  /\ UNCHANGED <<uploaded_files, file_dates, report_data, pc, exc, warnings>>

\* create_report up to the base report structure
CreateReportStart ==
  /\ pc = "loop" /\ i < Len(uploaded_files)
  /\ ~oee_df.none
  /\ analysis_df' = BaseReport
  /\ final_index' = <<>>
  /\ final_report_df' = NoneDf
  /\ pc' = "oee"
  /\ UNCHANGED <<uploaded_files, file_dates, report_data, i, exc, warnings, errors>>

\* one "analysis_df = process_...(...)" line of create_report
Step(from, to, res) ==
  /\ pc = from
  /\ analysis_df' = res.df
  /\ warnings' = warnings \o [k \in DOMAIN res.warn |-> <<file_name, res.warn[k]>>]
  /\ exc' = res.exc
  /\ pc' = IF res.exc = "" THEN to ELSE "except"
  /\ UNCHANGED <<uploaded_files, file_dates, report_data, i, final_index, final_report_df, errors>>

RunOeeData ==
  Step("oee", "abnormalities", ProcessOeeData(PreprocessOee(oee_df.v), target_date, analysis_df))
RunAbnormalities ==
  Step("abnormalities", "target", Ret(ProcessAbnormalities(analysis_df), <<>>, ""))
RunProductionTarget ==
  Step("target", "consumption", ProcessProductionTarget(prod_df, analysis_df))
RunConsumption ==
  Step("consumption", "inventory", ProcessConsumption(consump_df, target_date, analysis_df))
RunInventory ==
  Step("inventory", "orders", ProcessInventory(prod_df, analysis_df))
RunOrderDetails ==
  Step("orders", "assemble", ProcessOrderDetails(order_df, analysis_df))

\* return analysis_df.sort_index().reset_index().drop(columns=['Sl. No.'])
Assemble ==
  /\ pc = "assemble"
  /\ \E flips \in SUBSET DuplicateSnos(analysis_df) :
       /\ final_index' = IndexColumn(SortIndex(analysis_df, flips))
       /\ final_report_df' = Present(DropSno(SortIndex(analysis_df, flips)))
  /\ pc' = "write"
  /\ UNCHANGED <<uploaded_files, file_dates, report_data, i, analysis_df, exc, warnings, errors>>

\* the two buffers are written and the entry is appended
ReportEntry ==
  [file_name |-> file_name, target_date |-> target_date,
   full_workbook_buffer |-> [analysis |-> final_report_df.v, sheets |-> xls.sheet_names],
   analysis_only_buffer |-> final_report_df.v]
AppendReport ==
  /\ pc = "write"
  /\ report_data' = Append(report_data, ReportEntry)
  /\ i' = i + 1
  /\ pc' = "loop"
  /\ UNCHANGED <<uploaded_files, file_dates, analysis_df, final_index, final_report_df, exc,
                 warnings, errors>>

\* except Exception as e: st.error, and the loop goes on to the next file
ExceptHandlerEndsLoop ==
  /\ pc = "except"
  /\ errors' = Append(errors, <<file_name, exc>>)
  /\ exc' = ""
  /\ pc' = "done"
  /\ UNCHANGED <<uploaded_files, file_dates, report_data, i, analysis_df, final_index,
                 final_report_df, warnings>>
ExceptHandler ==
  /\ pc = "except"
  /\ errors' = Append(errors, <<file_name, exc>>)
  /\ exc' = ""
  /\ i' = i + 1
  /\ pc' = "loop"
  /\ UNCHANGED <<uploaded_files, file_dates, report_data, analysis_df, final_index,
                 final_report_df, warnings>>

\* the loop is over: "All files processed!"
Finish ==
  /\ pc = "loop" /\ i = Len(uploaded_files)
  /\ pc' = "done"
  /\ UNCHANGED <<uploaded_files, file_dates, report_data, i, analysis_df, final_index,
                 final_report_df, exc, warnings, errors>>

Next ==
  \/ GenerateReports
  \/ CreateReportNoOee
  \/ CreateReportStart
  \/ RunOeeData
  \/ RunAbnormalities
  \/ RunProductionTarget
  \/ RunConsumption
  \/ RunInventory
  \/ RunOrderDetails
  \/ Assemble
  \/ AppendReport
  \/ ExceptHandler
  \/ Finish

Spec == Init /\ [][Next]_vars

\* ------------------------------------------------------------- the claims

\* the row of the table labelled sno
RowOf(df, sno) == df[CHOOSE k \in DOMAIN df : df[k].sno = sno]
Least(S) == CHOOSE n \in S : \A m \in S : n <= m
Greatest(S) == CHOOSE n \in S : \A m \in S : n >= m
NoRepeats(q) == \A j, k \in DOMAIN q : j # k => q[j] # q[k]
\* the warnings of the current file
WarningsOfFile(w) == SelectSeq(w, LAMBDA x : x[1] = file_name)

\* C1: at assembly every serial number of the table is unique: no inventory
\* serial equals an order serial, and the sorted index has no repeat.
C1_SerialsUnique ==
  /\ pc \in {"assemble", "write"} => NoRepeats(IndexColumn(analysis_df))
  /\ pc = "write" => NoRepeats(final_index)

\* the rows of column 0 of the 'coal & elec' sheet whose text contains kw
ConsRows(kw) ==
  {r \in 0 .. Height(consump_df.v) - 1 :
     Iloc(consump_df.v, r, 0).k = "str" /\ Contains(kw, Lower(Iloc(consump_df.v, r, 0).s))}
\* the column of the row-major first cell holding the target day
ConsDateCol ==
  LET ds == {p \in (0 .. Height(consump_df.v) - 1) \X (0 .. Width(consump_df.v) - 1) :
               Iloc(consump_df.v, p[1], p[2]) = Dt(target_date)}
  IN  Least({p[2] : p \in {q \in ds : \A o \in ds : q[1] <= o[1]}})
ConsDateFound ==
  /\ ~consump_df.none
  /\ \E r \in 0 .. Height(consump_df.v) - 1, c \in 0 .. Width(consump_df.v) - 1 :
       Iloc(consump_df.v, r, c) = Dt(target_date)
\* process_consumption has just returned for the current file
AfterConsumption == pc = "inventory"

TargetCells(n) ==
  {p \in (0 .. Height(prod_df.v) - 1) \X (0 .. Width(prod_df.v) - 1) :
     p[1] < n /\ Iloc(prod_df.v, p[1], p[2]).k = "str"
     /\ Contains("target mtd", Lower(Iloc(prod_df.v, p[1], p[2]).s))}
\* the row-major first of them
TargetAnchor(n) ==
  LET x == Least({p[1] : p \in TargetCells(n)})
  IN  <<x, Least({p[2] : p \in {q \in TargetCells(n) : q[1] = x}})>>
SeededRow(sno) == RowOf(BaseReport, sno)

\* C3: "target mtd" is searched in the first 10 rows only: with no such cell
\* there rows 14 and 15 keep their defaults and the keyword warning is
\* emitted; with one, the values come from the cells right of the row-major
\* first one.
C3_BoundedScan ==
  pc = "consumption" /\ ~prod_df.none =>
    /\ TargetCells(10) = {} =>
         /\ RowOf(analysis_df, 14) = SeededRow(14)
         /\ RowOf(analysis_df, 15) = SeededRow(15)
         /\ \E k \in DOMAIN warnings :
              warnings[k] = <<file_name, "'Target MTD' keyword not found in 'Gloves Production' sheet.">>
    /\ TargetCells(10) # {} =>
         LET x == TargetAnchor(10)[1]
             y == TargetAnchor(10)[2]
         IN  InBounds(prod_df.v, x + 2, y + 1) =>
               /\ RowOf(analysis_df, 14).Standard.a = <<Iloc(prod_df.v, x, y + 1)>>
               /\ RowOf(analysis_df, 14).Actual.a = <<Iloc(prod_df.v, x + 1, y + 1)>>
               /\ RowOf(analysis_df, 15).Actual.a = <<Iloc(prod_df.v, x + 2, y + 1)>>

\* the OEE sheet has a row for the target date
OeeHasDate == \E k \in DOMAIN oee_df.v : oee_df.v[k].Date = target_date

\* C4: with no row of the OEE sheet for the target date, process_oee_data
\* leaves rows 1..12 at their seeded values, changes no other row and emits
\* exactly one warning.
C4_NoOeeDataNoChange ==
  [][pc = "oee" /\ ~OeeHasDate =>
       /\ \A sno \in 1 .. 12 : RowOf(analysis_df', sno) = SeededRow(sno)
       /\ analysis_df' = analysis_df
       /\ Len(warnings') = Len(warnings) + 1
       /\ exc' = ""]_vars

\* process_oee_data has returned on a non-empty sheet without a row for the day
C4_Witness ==
  /\ pc = "abnormalities"
  /\ ~OeeHasDate
  /\ Len(oee_df.v) > 0
  /\ Len(WarningsOfFile(warnings)) = 1

\* the first row of the sheet for the target date and line i (0 when absent)
OeeLineRows(l) ==
  {k \in DOMAIN oee_df.v : oee_df.v[k].Date = target_date /\ oee_df.v[k].Line = LineName(l)}
LineIsDown(l) == OeeLineRows(l) = {} \/ oee_df.v[Least(OeeLineRows(l))].OEE <= 0

\* C5: with a row for the target date, every line that is absent or whose OEE
\* is <= 0 gets Actual = "Shutdown" on its four rows and the shutdown remark
\* on its working-hours row only, its other three remarks staying empty; the
\* rows of a running line are not marked and the rows after 12 are unchanged.
C5_ShutdownAsymmetric ==
  [][pc = "oee" /\ OeeHasDate =>
       /\ \A l \in 1 .. 3 :
            IF LineIsDown(l)
              THEN /\ \A sno \in 4 * l - 3 .. 4 * l :
                        RowOf(analysis_df', sno).Actual = Txt("Shutdown")
                   /\ RowOf(analysis_df', 4 * l - 3).Remark = Txt("Line was Shutdown for the day.")
                   /\ \A sno \in 4 * l - 2 .. 4 * l : RowOf(analysis_df', sno).Remark = Blank
              ELSE \A sno \in 4 * l - 3 .. 4 * l :
                        /\ RowOf(analysis_df', sno).Actual # Txt("Shutdown")
                        /\ RowOf(analysis_df', sno).Remark # Txt("Line was Shutdown for the day.")
       /\ \A sno \in {13, 14, 15, 17, 18} : RowOf(analysis_df', sno) = RowOf(analysis_df, sno)
       /\ \A sno \in 1 .. 12 :
            /\ RowOf(analysis_df', sno).Standard = SeededRow(sno).Standard
            /\ RowOf(analysis_df', sno).Particulars = SeededRow(sno).Particulars]_vars

\* a day on which one line ran and another was shut down
C5_Witness ==
  /\ pc = "abnormalities"
  /\ OeeHasDate
  /\ \E l, m \in 1 .. 3 : LineIsDown(l) /\ ~LineIsDown(m)
  /\ \E l \in 1 .. 3 : RowOf(analysis_df, 4 * l).Actual = Txt("Shutdown")

\* the cells of the 'Gloves Production' grid containing "xnbr latex"
LatexCells ==
  {p \in (0 .. Height(prod_df.v) - 1) \X (0 .. Width(prod_df.v) - 1) :
     Iloc(prod_df.v, p[1], p[2]).k = "str"
     /\ Contains("xnbr latex", Lower(Iloc(prod_df.v, p[1], p[2]).s))}
\* the inventory anchor (r0, c): the row-major first of them
LatexAnchor ==
  LET r0 == Least({p[1] : p \in LatexCells})
  IN  <<r0, Least({p[2] : p \in {q \in LatexCells : q[1] = r0}})>>
AnchorFound == ~prod_df.none /\ LatexCells # {}
\* the number of rows from the anchor down to the first empty cell of the
\* anchor's column, or to the end of the grid
WalkLength ==
  LET r0 == LatexAnchor[1]
      c == LatexAnchor[2]
      stops == {r \in r0 .. Height(prod_df.v) - 1 : Iloc(prod_df.v, r, c).k = "nan"}
  IN  (IF stops = {} THEN Height(prod_df.v) ELSE Least(stops)) - r0
\* the rows the extractors appended after the seeded ones
Appended(df) == SubSeq(df, Len(BaseReport) + 1, Len(df))

\* C6: once the anchor is found, the walk emits one row for each grid row from
\* the anchor down to the first empty cell of its column, with the serial
\* numbers 19, 20, ... in walk order.
C6_WalkEmitsEveryRow ==
  [][pc = "inventory" /\ AnchorFound =>
       /\ Len(Appended(analysis_df')) = WalkLength
       /\ \A j \in 1 .. Len(Appended(analysis_df')) :
            /\ Appended(analysis_df')[j].sno = 19 + j - 1
            /\ Appended(analysis_df')[j].Particulars
                 = Txt(Upper(Iloc(prod_df.v, LatexAnchor[1] + j - 1, LatexAnchor[2]).s))]_vars

SeededSnos == {1, 2, 3, 4, 5, 6, 7, 8, 9, 10, 11, 12, 13, 14, 15, 17, 18}

\* C7: a returned table holds the 17 seeded rows with their Particulars and
\* Unit, in ascending serial order, every appended row after them.
C7_SeededRowsSorted ==
  pc = "write" =>
    /\ ~final_report_df.none
    /\ Len(final_report_df.v) = Len(final_index)
    /\ \A j, k \in DOMAIN final_index : j < k => final_index[j] <= final_index[k]
    /\ \A sno \in SeededSnos :
         \E k \in DOMAIN final_index :
           /\ final_index[k] = sno
           /\ final_report_df.v[k].Particulars = SeededRow(sno).Particulars
           /\ final_report_df.v[k].Unit = SeededRow(sno).Unit
           /\ \A j \in DOMAIN final_index : final_index[j] = sno => j = k
    /\ \A k \in DOMAIN final_index :
         final_index[k] \notin SeededSnos =>
           \A j \in DOMAIN final_index : final_index[j] \in SeededSnos => j < k

\* a table with appended rows in which the production target was not found
C7_Witness ==
  /\ pc = "write"
  /\ Len(final_index) > 17
  /\ final_report_df.v[14].Actual = Blank
  /\ final_report_df.v[1].Actual # Blank

\* C8: with the 'coal & elec' sheet present each sub-lookup fails with its own
\* warning: no "coal" row gives a warning and leaves row 17 at its defaults
\* while row 18 is populated when the day and an "electri" row are found, and
\* symmetrically; with the sheet absent there is one warning and both rows
\* keep their defaults.
C8_IndependentWarnings ==
  [][pc = "consumption" =>
       /\ consump_df.none =>
            /\ Len(warnings') = Len(warnings) + 1
            /\ RowOf(analysis_df', 17) = SeededRow(17)
            /\ RowOf(analysis_df', 18) = SeededRow(18)
       /\ ~consump_df.none /\ ConsRows("coal") = {} =>
            /\ Len(warnings') > Len(warnings)
            /\ RowOf(analysis_df', 17) = SeededRow(17)
            /\ ConsDateFound /\ ConsRows("electri") # {} => RowOf(analysis_df', 18).Actual # Blank
       /\ ~consump_df.none /\ ConsRows("electri") = {} =>
            /\ Len(warnings') > Len(warnings)
            /\ RowOf(analysis_df', 18) = SeededRow(18)
            /\ ConsDateFound /\ ConsRows("coal") # {} => RowOf(analysis_df', 17).Actual # Blank]_vars

\* a read of process_production_target falls outside the grid
TargetReadOutside ==
  /\ ~prod_df.none /\ TargetCells(Height(prod_df.v)) # {}
  /\ ~InBounds(prod_df.v, TargetAnchor(Height(prod_df.v))[1] + 2, TargetAnchor(Height(prod_df.v))[2] + 1)
\* a read of process_inventory at columns c+1, c+2 falls outside the grid
InventoryReadOutside ==
  /\ AnchorFound
  /\ LatexAnchor[2] + 2 >= Width(prod_df.v)

\* C9: a positional read outside the grid is recovered inside the extractor:
\* it does not raise, the rows it had not produced and the rows of the other
\* groups are unchanged, a warning is emitted and create_report goes on.
C9_OutOfRangeRecovered ==
  [][/\ pc = "target" /\ TargetReadOutside =>
          /\ exc' = "" /\ pc' = "consumption"
          /\ analysis_df' = analysis_df
          /\ Len(warnings') = Len(warnings) + 1
     /\ pc = "inventory" /\ InventoryReadOutside =>
          /\ exc' = "" /\ pc' = "orders"
          /\ \A sno \in SeededSnos : RowOf(analysis_df', sno) = RowOf(analysis_df, sno)
          /\ Len(warnings') = Len(warnings) + 1]_vars

\* the files of the batch processed without failure, in upload order
Succeeded ==
  SelectSeq([k \in DOMAIN uploaded_files |-> k],
            LAMBDA k : LET r == CreateReport(uploaded_files[k], file_dates[k])
                       IN  ~r.none /\ r.exc = "")
Failed == {k \in DOMAIN uploaded_files : \A j \in DOMAIN Succeeded : Succeeded[j] # k}

\* C10: when the loop has ended, a workbook without OEE sheet or whose
\* processing raised has an error message and no entry, and report_data holds
\* one entry per other workbook, in upload order, built from that workbook and
\* its date.
C10_BatchIsolation ==
  pc = "done" =>
    /\ Len(report_data) = Len(Succeeded)
    /\ \A j \in DOMAIN report_data :
         LET k == Succeeded[j]
             r == CreateReport(uploaded_files[k], file_dates[k])
         IN  /\ report_data[j].file_name = k
             /\ report_data[j].target_date = file_dates[k]
             /\ \E flips \in SUBSET DuplicateSnos(r.df) :
                  report_data[j].analysis_only_buffer = DropSno(SortFrom(r.df, Snos(r.df), flips))
             /\ report_data[j].full_workbook_buffer.analysis = report_data[j].analysis_only_buffer
             /\ report_data[j].full_workbook_buffer.sheets = uploaded_files[k].sheet_names
    /\ {errors[j][1] : j \in DOMAIN errors} = Failed
    /\ Len(errors) = Cardinality(Failed)

\* a batch whose first file failed and whose second file has its entry
C10_Witness ==
  /\ pc = "done"
  /\ Len(uploaded_files) >= 2
  /\ Len(errors) >= 1 /\ errors[1][1] = 1
  /\ Len(report_data) >= 1 /\ report_data[1].file_name = 2

====
